---- MODULE Spec2Model ----
(***************************************************************************)
(* Model of "200M Data/Parser.py": the token-based parser that turns the   *)
(* rows of the 200m export into tidy performance records.                  *)
(*                                                                         *)
(* Text is a sequence of one-character strings, so that norm, parse_float  *)
(* and the substring / regular-expression tests are computed as the code   *)
(* computes them.  The characters U+00A0 and U+200B are written "NBSP" and *)
(* "ZWSP".  A float is an integer count of thousandths (5.82 is 5820); the *)
(* input vocabulary carries at most three decimals.  A Python value that   *)
(* may be None is a sequence of length at most one: None is <<>> and the   *)
(* value v is <<v>>.  A dict is a function whose DOMAIN is its key set.    *)
(***************************************************************************)
EXTENDS Integers, Sequences, FiniteSets, TLC

\* Parser.py: the rows consumed, the script's globals, the position of the
\* script and the table it writes
VARIABLES rows, records, current_athlete, current_meet, current_source,
          pending, pc, df

\* parse_float applied to one cell: its argument and its result
VARIABLES raw_cell, parsed

\* scraper.py: the position of main(), the year pages fetched, the meet
\* links and race analysis links still to iterate, the documents saved and
\* the failures reported
VARIABLES s_pc, year_idx, meet_links, ra_links, saved, failed

parse_vars == <<raw_cell, parsed>>

scraper_vars == <<s_pc, year_idx, meet_links, ra_links, saved, failed>>

vars == <<rows, records, current_athlete, current_meet, current_source,
          pending, pc, df, raw_cell, parsed, s_pc, year_idx, meet_links,
          ra_links, saved, failed>>

-----------------------------------------------------------------------------
(* Bounds of the model *)

\* number of input rows the loop consumes before the input ends
MaxRows == 3

-----------------------------------------------------------------------------
(* Python values *)

None == <<>>

Some(v) == <<v>>

\* truthiness of an Optional[str]: None and "" are falsy
Truthy(o) == o # None /\ o[1] # <<>>

EmptyDict == [k \in {} |-> None]

\* dict.get(k) with the default None
Get(p, k) == IF k \in DOMAIN p THEN p[k] ELSE None

\* p[k] = v
Put(p, k, v) == [x \in (DOMAIN p) \cup {k} |-> IF x = k THEN v ELSE p[x]]

-----------------------------------------------------------------------------
(* Characters and text *)

UpperChars == <<"A","B","C","D","E","F","G","H","I","J","K","L","M",
                "N","O","P","Q","R","S","T","U","V","W","X","Y","Z">>

LowerChars == <<"a","b","c","d","e","f","g","h","i","j","k","l","m",
                "n","o","p","q","r","s","t","u","v","w","x","y","z">>

DigitChars == <<"0","1","2","3","4","5","6","7","8","9">>

IsUpper(ch) == \E i \in 1..26 : UpperChars[i] = ch

IsDigit(ch) == \E i \in 1..10 : DigitChars[i] = ch

\* the characters str.strip() removes and \s matches
SpaceChars == {" ", "\t", "\n", "\r"}

DigitVal(ch) == (CHOOSE i \in 1..10 : DigitChars[i] = ch) - 1

ToLowerCh(ch) ==
    IF \E i \in 1..26 : UpperChars[i] = ch
    THEN LowerChars[CHOOSE i \in 1..26 : UpperChars[i] = ch]
    ELSE ch

ToUpperCh(ch) ==
    IF \E i \in 1..26 : LowerChars[i] = ch
    THEN UpperChars[CHOOSE i \in 1..26 : LowerChars[i] = ch]
    ELSE ch

\* str.lower()
Lower(s) == [i \in 1..Len(s) |-> ToLowerCh(s[i])]

\* str.upper()
Upper(s) == [i \in 1..Len(s) |-> ToUpperCh(s[i])]

\* sub in s
Contains(s, sub) ==
    \E i \in 1..(Len(s) - Len(sub) + 1) : SubSeq(s, i, i + Len(sub) - 1) = sub

\* the characters of s that satisfy Keep, in order
FilterChars(s, keep) ==
    LET Kept_(c) == c \in keep
    IN SelectSeq(s, Kept_)

\* s.strip(chars): drop leading and trailing characters of the set
StripSet(s, drop) ==
    LET keepIdx == {i \in 1..Len(s) : s[i] \notin drop}
    IN IF keepIdx = {} THEN <<>>
       ELSE LET lo == CHOOSE i \in keepIdx : \A j \in keepIdx : i <= j
                hi == CHOOSE i \in keepIdx : \A j \in keepIdx : j <= i
            IN SubSeq(s, lo, hi)

\* sep.join(parts)
RECURSIVE Join(_, _)
Join(parts, sep) ==
    IF parts = <<>> THEN <<>>
    ELSE IF Len(parts) = 1 THEN parts[1]
    ELSE parts[1] \o sep \o Join(Tail(parts), sep)

\* str(n) for an integer n >= 0
RECURSIVE IntToStr(_)
IntToStr(n) ==
    IF n < 10 THEN <<DigitChars[n + 1]>>
    ELSE IntToStr(n \div 10) \o <<DigitChars[(n % 10) + 1]>>

-----------------------------------------------------------------------------
(* Parser helpers, Parser.py lines 11-80 *)

\* norm(s): NBSP becomes a space, zero-width spaces go, then strip() and
\* strip('"')
norm(o) ==
    IF o = None THEN <<>>
    ELSE LET a == [i \in 1..Len(o[1]) |->
                      IF o[1][i] = "NBSP" THEN " " ELSE o[1][i]]
             b == FilterChars(a, {a[i] : i \in 1..Len(a)} \ {"ZWSP"})
             c == StripSet(b, SpaceChars)
         IN StripSet(c, {"\""})

\* float(s) for a text of digits, dots and minus signs: None when Python
\* raises ValueError, else the value in thousandths
FloatOf(s) ==
    LET neg  == s # <<>> /\ s[1] = "-"
        body == IF neg THEN Tail(s) ELSE s
        dots == {i \in 1..Len(body) : body[i] = "."}
        dot  == IF dots = {} THEN Len(body) + 1 ELSE CHOOSE i \in dots : TRUE
        ip   == SubSeq(body, 1, dot - 1)
        fp   == SubSeq(body, dot + 1, Len(body))
        IntOf[k \in 0..Len(ip)] ==
            IF k = 0 THEN 0 ELSE IntOf[k - 1] * 10 + DigitVal(ip[k])
        FracDigit(k) == IF k <= Len(fp) THEN DigitVal(fp[k]) ELSE 0
        mag  == IntOf[Len(ip)] * 1000
                  + FracDigit(1) * 100 + FracDigit(2) * 10 + FracDigit(3)
    IN IF \/ \E i \in 1..Len(body) : body[i] = "-"
          \/ Cardinality(dots) > 1
          \/ Len(ip) + Len(fp) = 0
       THEN None
       ELSE Some(IF neg THEN 0 - mag ELSE mag)

parse_float(x) ==
    LET s == norm(x)
    IN IF s = <<>> \/ Upper(s) \in {<<"N","A">>, <<"N","U","L","L">>}
       THEN None
       ELSE LET t == FilterChars(s, {DigitChars[i] : i \in 1..10} \cup {".", "-"})
            IN IF t \in {<<>>, <<"-">>, <<"-","-">>} THEN None ELSE FloatOf(t)

\* re.search(r"\([A-Z]{3}\)\s*\(\d{4}\)", norm(cell))
looks_like_athlete(cell) ==
    LET c == norm(Some(cell))
        At(i) == IF i >= 1 /\ i <= Len(c) THEN c[i] ELSE "EOT"
    IN \E i \in 1..Len(c) :
          /\ At(i) = "("
          /\ IsUpper(At(i + 1)) /\ IsUpper(At(i + 2)) /\ IsUpper(At(i + 3))
          /\ At(i + 4) = ")"
          /\ \E k \in 0..Len(c) :
                /\ \A j \in 1..k : At(i + 4 + j) \in SpaceChars
                /\ At(i + 5 + k) = "("
                /\ \A j \in 1..4 : IsDigit(At(i + 5 + k + j))
                /\ At(i + 10 + k) = ")"

SourceMarkers ==
    { <<"T","i","m","i","n","g">>, <<"w","w","w",".">>,
      <<"T","s","u","c","h","i","e">>,
      <<"a","n","a","l","y","s","i","s">>,
      <<"r","u","n"," ","s","p","e","e","d">> }

is_source_text(txt) == \E k \in SourceMarkers : Contains(txt, k)

row_contains_token(r, token) ==
    \E i \in 1..Len(r) : Lower(norm(Some(r[i]))) = Lower(token)

\* the first index (from 1) of a cell equal to the token, or None
find_token_idx(r, token) ==
    LET hits == {i \in 1..Len(r) : Lower(norm(Some(r[i]))) = Lower(token)}
    IN IF hits = {} THEN None
       ELSE Some(CHOOSE i \in hits : \A j \in hits : i <= j)

\* the first cell after index start whose norm is not empty, or None
first_nonempty_after(r, start) ==
    LET hits == {j \in (start + 1)..Len(r) : norm(Some(r[j])) # <<>>}
    IN IF hits = {} THEN None
       ELSE Some(r[CHOOSE j \in hits : \A k \in hits : j <= k])

last_nonempty(r) ==
    LET hits == {j \in 1..Len(r) : norm(Some(r[j])) # <<>>}
    IN IF hits = {} THEN None
       ELSE Some(r[CHOOSE j \in hits : \A k \in hits : k <= j])

is_meet_line(r) ==
    IF Len(r) < 2 THEN FALSE
    ELSE LET c0 == norm(Some(r[1]))
             c1 == norm(Some(r[2]))
             looks_meetish ==
                 \/ Contains(c1, <<" ", "-", " ">>)
                 \/ (Contains(c1, <<"(">>) /\ Contains(c1, <<")">>))
         IN c0 = <<>> /\ c1 # <<>> /\ looks_meetish

\* round(x, 2) of a value in thousandths (ties go to the even hundredth)
Round2(x) ==
    LET r    == x % 10
        base == x - r
    IN IF r < 5 THEN base
       ELSE IF r > 5 THEN base + 10
       ELSE IF (base \div 10) % 2 = 0 THEN base ELSE base + 10

\* round(100.0 / t, 2) for t > 0 in thousandths, in thousandths
Vel100(t) ==
    LET q == 10000000 \div t
        r == 10000000 % t
    IN IF 2 * r < t THEN q * 10
       ELSE IF 2 * r > t THEN (q + 1) * 10
       ELSE IF q % 2 = 0 THEN q * 10 ELSE (q + 1) * 10

\* lines 73-75 with 0.0 in place of None for a split <= 0
Derived100_zero_velocity(p, t100) ==
    Put(Put(p, "0-100m", Some(Round2(t100))),
        "Vel_0_100m", IF t100 > 0 THEN Some(Vel100(t100)) ELSE Some(0))

\* lines 73-75, for a 100m split t100 that is not None
Derived100(p, t100) ==
    Put(Put(p, "0-100m", Some(Round2(t100))),
        "Vel_0_100m", IF t100 > 0 THEN Some(Vel100(t100)) ELSE None)

\* lines 76-80, for splits that are not None and seg2 = t200 - t100
Derived200(p, t100, seg2) ==
    Put(Put(Put(p, "100-200m", Some(Round2(seg2))),
            "Vel_100_200m", IF seg2 > 0 THEN Some(Vel100(seg2)) ELSE None),
        "Differential", Some(Round2(seg2 - t100)))

DerivedOf(p, t100, t200) ==
    IF t100 = None THEN p
    ELSE IF t200 = None THEN Derived100(p, t100[1])
    ELSE Derived200(Derived100(p, t100[1]), t100[1], t200[1] - t100[1])

compute_derived(p) == DerivedOf(p, Get(p, "100m"), Get(p, "200m"))

-----------------------------------------------------------------------------
(* The input: rows of raw cells as csv.reader yields them *)

InputRows ==
    {
      \* athlete headers
      <<<<"L",","," ","N"," ","(","U","S","A",")"," ","(","1","9","9","7",")">>>>,
      <<<<"B",","," ","U"," ","(","J","A","M",")","(","1","9","8","6",")">>>>,
      \* meet lines, the second with a source in its tail
      <<<<>>, <<"L","a","u","s","a","n","n","e"," ","D","i","a","m","o","n","d"," ","L","e","a","g","u","e"," ","-"," ","2","0","0","m">>>>,
      <<<<>>, <<"R","o","m","e"," ","(","F",")">>, <<>>, <<"S","e","i","k","o"," ","T","i","m","i","n","g">>>>,
      \* source citations; the last two also hold a reaction time / wind cell
      <<<<>>, <<>>, <<"w","w","w",".","a",".","j","p">>>>,
      <<<<"R","e","a","c","t","i","o","n"," ","t","i","m","e">>, <<"0",".","1","4","2">>, <<"T","i","m","i","n","g">>>>,
      <<<<"W","i","n","d">>, <<"0",".","0">>, <<"r","u","n"," ","s","p","e","e","d">>>>,
      \* date rows: five and four numerics after the time anchor
      <<<<"D","a","t","e">>, <<>>, <<"1","4"," ","J","U","N"," ","2","0","2","4">>, <<"T","i","m","e">>, <<>>, <<"5",".","8","2">>, <<"1","0",".","1","0">>, <<"1","4",".","5","5">>, <<"1","9",".","9","5">>, <<"1","9",".","9","5">>>>,
      <<<<"\"","d","a","t","e","\"">>, <<"2"," ","M","A","Y">>, <<"t","i","m","e">>, <<"5",".","9">>, <<"1","0",".","3">>, <<"1","4",".","9">>, <<"2","0",".","1">>>>,
      \* date row with a lane/place cell after the time anchor
      <<<<"D","a","t","e">>, <<"1"," ","M","A","Y">>, <<"T","i","m","e">>, <<"4","/","1">>, <<"5",".","9">>, <<"1","0",".","3">>, <<"1","4",".","9">>, <<"2","0",".","1">>, <<"2","0",".","1">>>>,
      \* date rows without a time anchor
      <<<<"D","a","t","e">>, <<"5",".","9">>, <<"1","0",".","3">>, <<"1","4",".","9">>, <<"2","0",".","1">>, <<"2","0",".","2">>>>,
      <<<<"D","a","t","e">>, <<"3"," ","M","A","Y"," ","2","0","2","4">>, <<"3"," ","M","A","Y"," ","2","0","2","4">>, <<"5",".","9">>, <<"1","0",".","3">>>>,
      \* date row with two numerics after the time anchor and four in all
      <<<<"D","a","t","e">>, <<"5",".","9">>, <<"1","0",".","3">>, <<"T","i","m","e">>, <<"1","4",".","9">>, <<"2","0",".","1">>>>,
      \* date rows with too few numerics, and with a zero split
      <<<<"D","a","t","e">>, <<"4"," ","M","A","Y">>, <<"T","i","m","e">>, <<"5",".","9">>, <<"T","i","m","i","n","g">>>>,
      <<<<"D","a","t","e">>, <<"T","i","m","e">>, <<"0">>, <<"0">>, <<"0">>, <<"9",".","5">>>>,
      \* reaction time rows
      <<<<"R","e","a","c","t","i","o","n"," ","t","i","m","e">>, <<"0",".","1","4","2">>>>,
      <<<<"R","e","a","c","t","i","o","n"," ","T","i","m","e">>, <<>>, <<"N","A">>>>,
      \* wind rows, with and without a velocity anchor
      <<<<"W","i","n","d">>, <<"+","0",".","3">>, <<"V","e","l","o","c","i","t","y">>, <<"9",".","1">>, <<"1","3","1">>, <<"4","5">>>>,
      <<<<"W","i","n","d">>, <<"0",".","0">>, <<"v","e","l","o","c","i","t","y">>, <<"1","0">>, <<"1","3","1">>>>,
      <<<<"w","i","n","d">>, <<"-","0",".","1">>>>,
      \* a row of no category, and a row of empty cells
      <<<<"S","p","l","i","t","s">>>>,
      <<<<>>, <<"NBSP">>>>
    }

\* [norm(c) for c in r], then the loop's removal of trailing empty cells
RECURSIVE PopTrailing(_)
PopTrailing(r) ==
    IF r # <<>> /\ r[Len(r)] = <<>> THEN PopTrailing(SubSeq(r, 1, Len(r) - 1))
    ELSE r

ReadRow(raw) == PopTrailing([i \in 1..Len(raw) |-> norm(Some(raw[i]))])

\* the rows the loop can be handed
Rows == {ReadRow(raw) : raw \in InputRows}

-----------------------------------------------------------------------------
(* flush, Parser.py lines 93-103 *)

\* f'{pending.get(k, "")}': an absent key prints as "", a stored None as
\* "None"
FmtGet(p, k) ==
    IF k \notin DOMAIN p THEN <<>>
    ELSE IF p[k] = None THEN <<"N","o","n","e">>
    ELSE p[k][1]

\* the text of pending["Ath_Mt_Strd"]
Ath_Mt_Strd(p) ==
    LET sr == Get(p, "StrideRate")
    IN StripSet(FmtGet(p, "Athlete") \o <<"_">> \o FmtGet(p, "Meet Info")
                  \o <<"_">> \o (IF sr # None THEN IntToStr(sr[1]) ELSE <<>>),
                {"_"})

\* lines 98-101 without the second test of line 100: the source in effect
\* at the flush replaces the one the record was opened with
Keyed_source_overwrites(d, source) ==
    IF Truthy(source)
    THEN Put(Put(d, "Ath_Mt_Strd", Some(Ath_Mt_Strd(d))), "Source", source)
    ELSE Put(d, "Ath_Mt_Strd", Some(Ath_Mt_Strd(d)))

\* lines 98-101, on the dict d that compute_derived left
Keyed(d, source) ==
    IF Truthy(source) /\ ~Truthy(Get(d, "Source"))
    THEN Put(Put(d, "Ath_Mt_Strd", Some(Ath_Mt_Strd(d))), "Source", source)
    ELSE Put(d, "Ath_Mt_Strd", Some(Ath_Mt_Strd(d)))

\* the dict flush appends to records for a non-empty pending
Completed(p, source) == Keyed(compute_derived(p), source)

\* flush() without its last line, pending = {}
flush_keeps_pending(recs, p, source) ==
    IF DOMAIN p = {} THEN [records |-> recs, pending |-> p]
    ELSE [records |-> Append(recs, Completed(p, source)), pending |-> p]

\* flush() with pending.clear() in place of pending = {}: the dict that was
\* appended is the one emptied
flush_clear_in_place(recs, p, source) ==
    IF DOMAIN p = {} THEN [records |-> recs, pending |-> p]
    ELSE [records |-> Append(recs, EmptyDict), pending |-> EmptyDict]

\* flush(): the values of records and pending it leaves
flush(recs, p, source) ==
    IF DOMAIN p = {} THEN [records |-> recs, pending |-> p]
    ELSE [records |-> Append(recs, Completed(p, source)),
          pending |-> EmptyDict]

-----------------------------------------------------------------------------
(* The row loop, Parser.py lines 105-224 *)

tDate == <<"d","a","t","e">>
tTime == <<"t","i","m","e">>
tReaction == <<"r","e","a","c","t","i","o","n"," ","t","i","m","e">>
tWind == <<"w","i","n","d">>
tVelocity == <<"v","e","l","o","c","i","t","y">>

\* the tests in the order athlete, meet, date, reaction time, wind, source
Branch_source_last(r) ==
    IF r = <<>> THEN "empty"
    ELSE IF looks_like_athlete(r[1]) THEN "athlete"
    ELSE IF is_meet_line(r) THEN "meet"
    ELSE IF find_token_idx(r, <<"d","a","t","e">>) # None THEN "date"
    ELSE IF find_token_idx(r, <<"r","e","a","c","t","i","o","n"," ","t","i","m","e">>) # None
         THEN "rt"
    ELSE IF find_token_idx(r, <<"w","i","n","d">>) # None THEN "wind"
    ELSE IF is_source_text(Join(r, <<",">>)) THEN "source"
    ELSE "none"

\* the branch of the loop body that handles the row r (after the removal of
\* its trailing empty cells): the tests in the order the code makes them
Branch(r) ==
    IF r = <<>> THEN "empty"
    ELSE IF looks_like_athlete(r[1]) THEN "athlete"
    ELSE IF is_meet_line(r) THEN "meet"
    ELSE IF is_source_text(Join(r, <<",">>)) /\ ~row_contains_token(r, tDate)
         THEN "source"
    ELSE IF find_token_idx(r, tDate) # None THEN "date"
    ELSE IF find_token_idx(r, tReaction) # None THEN "rt"
    ELSE IF find_token_idx(r, tWind) # None THEN "wind"
    ELSE "none"

\* [x for x in (parse_float(c) for c in cells) if x is not None]
RECURSIVE NumsOf(_)
NumsOf(cells) ==
    IF cells = <<>> THEN <<>>
    ELSE parse_float(Some(Head(cells))) \o NumsOf(Tail(cells))

\* the first cell after the 'time' anchor that contains a slash
LanePlace(r, t_idx) ==
    IF t_idx = None THEN None
    ELSE LET hits == {j \in (t_idx[1] + 1)..Len(r) : Contains(r[j], <<"/">>)}
         IN IF hits = {} THEN None
            ELSE Some(r[CHOOSE j \in hits : \A k \in hits : j <= k])

\* the first four numbers as the splits, and the time value t
Four(nums, t) ==
    [s50 |-> Some(nums[1]), s100 |-> Some(nums[2]), s150 |-> Some(nums[3]),
     s200 |-> Some(nums[4]), time_val |-> Some(t)]

\* Strategy A taking the time from the fourth number also when there is a
\* fifth
StrategyA_time_is_fourth(nums) ==
    IF Len(nums) >= 4 THEN Four(nums, nums[4])
    ELSE [s50 |-> None, s100 |-> None, s150 |-> None, s200 |-> None,
          time_val |-> None]

\* Strategy A (lines 156-163) on the numbers after the 'time' anchor
StrategyA(nums) ==
    IF Len(nums) >= 5 THEN Four(nums, nums[5])
    ELSE IF Len(nums) >= 4 THEN Four(nums, nums[4])
    ELSE [s50 |-> None, s100 |-> None, s150 |-> None, s200 |-> None,
          time_val |-> None]

\* Strategy B assigning the numbers it has when the row holds fewer than
\* four
StrategyB_partial(a, nums) ==
    IF a.s50 = None /\ Len(nums) >= 4
    THEN Four(nums, IF Len(nums) > 4 THEN nums[5] ELSE nums[4])
    ELSE IF a.s50 = None /\ Len(nums) >= 1
    THEN [a EXCEPT !.s50 = Some(nums[1])]
    ELSE a

\* Strategy B without the test of line 165: it runs also when Strategy A
\* found the splits
StrategyB_always(a, nums) ==
    IF Len(nums) >= 4
    THEN Four(nums, IF Len(nums) > 4 THEN nums[5] ELSE nums[4])
    ELSE a

\* Strategy B (lines 165-170) on the numbers of the whole row
StrategyB(a, nums) ==
    IF a.s50 = None /\ Len(nums) >= 4
    THEN Four(nums, IF Len(nums) > 4 THEN nums[5] ELSE nums[4])
    ELSE a

\* splits and time_val of a date row
Splits(r, t_idx) ==
    StrategyB(StrategyA(IF t_idx = None THEN <<>>
                        ELSE NumsOf(SubSeq(r, t_idx[1] + 1, Len(r)))),
              NumsOf(r))

\* lines 173-184
Compose(athlete, meet, date, sp, lane_place, source) ==
    [k \in {"Athlete", "Meet Info", "Date", "50m", "100m", "150m", "200m",
            "Time", "Lane_Place", "Source"} |->
       CASE k = "Athlete"    -> athlete
         [] k = "Meet Info"  -> meet
         [] k = "Date"       -> date
         [] k = "50m"        -> sp.s50
         [] k = "100m"       -> sp.s100
         [] k = "150m"       -> sp.s150
         [] k = "200m"       -> sp.s200
         [] k = "Time"       -> IF sp.time_val # None THEN sp.time_val
                                ELSE sp.s200
         [] k = "Lane_Place" -> lane_place
         [] k = "Source"     -> source]

\* the dict a date row with anchors d_idx and t_idx assigns to pending
DateDict(r, d_idx, t_idx, athlete, meet, source) ==
    Compose(athlete, meet, first_nonempty_after(r, d_idx[1]),
            Splits(r, t_idx), LanePlace(r, t_idx), source)

DatePending(r, athlete, meet, source) ==
    DateDict(r, find_token_idx(r, tDate), find_token_idx(r, tTime),
             athlete, meet, source)

\* line 192 binding pending to a new dict that holds the reaction time only
SetRT_fresh_dict(p, rt_val) ==
    IF Truthy(rt_val) THEN Put(EmptyDict, "RT", parse_float(rt_val)) ELSE p

\* lines 191-192
SetRT(p, rt_val) ==
    IF Truthy(rt_val) THEN Put(p, "RT", parse_float(rt_val)) ELSE p

\* pending after a reaction time row
ReactionPending(r, p) ==
    SetRT(p, first_nonempty_after(r, find_token_idx(r, tReaction)[1]))

\* int(sc) for an all-digit text
IntOf(sc) == FloatOf(sc)[1] \div 1000

\* lines 214-220 without the range test of line 218: the first all-digit
\* cell after index v_idx
StrideOf_any_integer(r, v_idx) ==
    LET hits == {j \in (v_idx + 1)..Len(r) :
                    /\ norm(Some(r[j])) # <<>>
                    /\ \A i \in 1..Len(norm(Some(r[j]))) :
                          IsDigit(norm(Some(r[j]))[i])}
    IN IF hits = {} THEN None
       ELSE Some(IntOf(norm(Some(r[CHOOSE j \in hits :
                                        \A k \in hits : j <= k]))))

\* lines 214-220: the first all-digit cell after index v_idx whose value is
\* in 20..130, or None
StrideOf(r, v_idx) ==
    LET hits == {j \in (v_idx + 1)..Len(r) :
                    /\ norm(Some(r[j])) # <<>>
                    /\ \A i \in 1..Len(norm(Some(r[j]))) :
                          IsDigit(norm(Some(r[j]))[i])
                    /\ 20 <= IntOf(norm(Some(r[j])))
                    /\ IntOf(norm(Some(r[j]))) <= 130}
    IN IF hits = {} THEN None
       ELSE Some(IntOf(norm(Some(r[CHOOSE j \in hits :
                                        \A k \in hits : j <= k]))))

\* lines 199-200
SetWind(p, w_val) == IF Truthy(w_val) THEN Put(p, "Wind", w_val) ELSE p

\* lines 209-212: the n-th velocity, when vel_vals has one
SetVel(p, vel_vals, n, k) ==
    IF Len(vel_vals) >= n THEN Put(p, k, Some(vel_vals[n])) ELSE p

\* lines 219-220
SetStride(p, sr) == IF sr # None THEN Put(p, "StrideRate", sr) ELSE p

\* lines 209-212
SetVels(p, vel_vals) ==
    SetVel(SetVel(SetVel(SetVel(p, vel_vals, 1, "Vel_50m"),
                         vel_vals, 2, "Vel_100m"),
                  vel_vals, 3, "Vel_150m"),
           vel_vals, 4, "Vel_200m")

\* row[v_idx+1:v_idx+10]
VelCells(r, v_idx) ==
    SubSeq(r, v_idx + 1, IF v_idx + 9 < Len(r) THEN v_idx + 9 ELSE Len(r))

\* lines 201-220, for the result v_idx of the search for 'velocity'
Velocities(r, p, v_idx) ==
    IF v_idx = None THEN p
    ELSE SetStride(SetVels(p, NumsOf(VelCells(r, v_idx[1]))),
                   StrideOf(r, v_idx[1]))

\* pending after a wind row
WindPending(r, p) ==
    Velocities(r,
               SetWind(p, first_nonempty_after(r, find_token_idx(r, tWind)[1])),
               find_token_idx(r, tVelocity))

\* the branch taken by each row of the input
BranchOf == [r \in Rows |-> Branch(r)]

\* no cell is handed to parse_float on its own
ParseIdle ==
    /\ raw_cell = None
    /\ parsed = [kind |-> "idle"]

\* scraper.py is not running
ScraperIdle ==
    /\ s_pc = "off"
    /\ year_idx = 0
    /\ meet_links = 0
    /\ ra_links = 0
    /\ saved = 0
    /\ failed = 0

\* lines 87-91: the state of Parser.py before its loop
ParserInit ==
    /\ rows = <<>>
    /\ records = <<>>
    /\ current_athlete = None
    /\ current_meet = None
    /\ current_source = None
    /\ pending = EmptyDict
    /\ pc = "loop"
    /\ df = None

Init == ParserInit /\ ParseIdle /\ ScraperIdle

\* the loop takes the next row of the input
Takes(r) ==
    /\ pc = "loop"
    /\ Len(rows) < MaxRows
    /\ rows' = Append(rows, r)
    /\ pc' = "loop"
    /\ UNCHANGED <<df, parse_vars, scraper_vars>>

\* lines 107-110: a row of empty cells only
EmptyRow ==
    \E r \in Rows :
       /\ BranchOf[r] = "empty"
       /\ Takes(r)
       /\ UNCHANGED <<records, current_athlete, current_meet,
                      current_source, pending>>

\* the athlete header branch without current_meet = None
AthleteHeader_keeps_meet ==
    \E r \in Rows :
       LET f == flush(records, pending, current_source)
       IN /\ BranchOf[r] = "athlete"
          /\ Takes(r)
          /\ records' = f.records
          /\ pending' = f.pending
          /\ current_athlete' = Some(r[1])
          /\ current_source' = None
          /\ UNCHANGED current_meet

\* lines 112-118
AthleteHeader ==
    \E r \in Rows :
       LET f == flush(records, pending, current_source)
       IN /\ BranchOf[r] = "athlete"
          /\ Takes(r)
          /\ records' = f.records
          /\ pending' = f.pending
          /\ current_athlete' = Some(r[1])
          /\ current_meet' = None
          /\ current_source' = None

\* the meet line branch clearing the athlete context
MeetLine_clears_athlete ==
    \E r \in Rows :
       /\ BranchOf[r] = "meet"
       /\ Takes(r)
       /\ current_meet' = Some(norm(first_nonempty_after(r, 1)))
       /\ current_athlete' = None
       /\ UNCHANGED <<records, current_source, pending>>

\* lines 120-130
MeetLine ==
    \E r \in Rows :
       LET meet == first_nonempty_after(r, 1)
           tail == IF Len(r) > 2 THEN last_nonempty(SubSeq(r, 3, Len(r)))
                   ELSE None
       IN /\ BranchOf[r] = "meet"
          /\ Takes(r)
          /\ current_meet' = IF meet # None THEN Some(norm(meet))
                             ELSE current_meet
          /\ current_source' = IF Truthy(tail) /\ is_source_text(tail[1])
                               THEN tail ELSE current_source
          /\ UNCHANGED <<records, current_athlete, pending>>

\* lines 132-138
StandaloneSource ==
    \E r \in Rows :
       LET maybe == last_nonempty(r)
       IN /\ BranchOf[r] = "source"
          /\ Takes(r)
          /\ current_source' = IF Truthy(maybe) THEN maybe ELSE current_source
          /\ UNCHANGED <<records, current_athlete, current_meet, pending>>

\* lines 140-185
DateRow ==
    \E r \in Rows :
       LET f == flush(records, pending, current_source)
       IN /\ BranchOf[r] = "date"
          /\ Takes(r)
          /\ records' = f.records
          /\ pending' = DatePending(r, current_athlete, current_meet,
                                    current_source)
          /\ UNCHANGED <<current_athlete, current_meet, current_source>>

\* lines 187-193
ReactionTimeRow ==
    \E r \in Rows :
       /\ BranchOf[r] = "rt"
       /\ Takes(r)
       /\ pending' = ReactionPending(r, pending)
       /\ UNCHANGED <<records, current_athlete, current_meet,
                      current_source>>

\* lines 195-221
WindRow ==
    \E r \in Rows :
       /\ BranchOf[r] = "wind"
       /\ Takes(r)
       /\ pending' = WindPending(r, pending)
       /\ UNCHANGED <<records, current_athlete, current_meet,
                      current_source>>

\* a row that no branch matches falls through the loop body
OtherRow ==
    \E r \in Rows :
       /\ BranchOf[r] = "none"
       /\ Takes(r)
       /\ UNCHANGED <<records, current_athlete, current_meet,
                      current_source, pending>>

\* lines 227-234
cols ==
    <<"Athlete", "Meet Info", "Lane_Place", "Wind", "Date", "RT",
      "50m", "100m", "150m", "200m", "Time",
      "0-100m", "100-200m", "Differential",
      "Vel_50m", "Vel_100m", "Vel_150m", "Vel_200m",
      "Vel_0_100m", "Vel_100_200m",
      "StrideRate", "Source", "Ath_Mt_Strd">>

\* line 235, pd.DataFrame(records): a column for every key of any record
\* (a set here: line 239 fixes the order), a missing value is the null marker
DataFrame(recs) ==
    [columns |-> UNION {DOMAIN recs[i] : i \in 1..Len(recs)},
     data    |-> [i \in 1..Len(recs) |->
                    [c \in UNION {DOMAIN recs[j] : j \in 1..Len(recs)} |->
                        Get(recs[i], c)]]]

\* lines 236-238 for the first k names of cols: a column the frame lacks is
\* added, filled with None
RECURSIVE FillMissing(_, _)
FillMissing(d, k) ==
    IF k = 0 THEN d
    ELSE LET e == FillMissing(d, k - 1)
         IN IF cols[k] \in e.columns THEN e
            ELSE [columns |-> e.columns \cup {cols[k]},
                  data    |-> [i \in DOMAIN e.data |->
                                 Put(e.data[i], cols[k], None)]]

\* line 239, df[cs]: the columns named by cs, in the order of cs
Select(d, cs) ==
    [columns |-> cs,
     data    |-> [i \in DOMAIN d.data |->
                    [c \in {cs[k] : k \in 1..Len(cs)} |-> d.data[i][c]]]]

\* lines 235-239 with the columns of line 239 limited to those the frame
\* of line 235 has: no column is added
FinalFrame_present_only(recs) ==
    Select(DataFrame(recs),
           SelectSeq(cols, LAMBDA c : c \in DataFrame(recs).columns))

\* lines 235-239: the table that line 242 writes
FinalFrame(recs) == Select(FillMissing(DataFrame(recs), Len(cols)), cols)

\* the script without its last flush() call
FinalFlush_missing ==
    /\ pc = "loop"
    /\ pc' = "done"
    /\ UNCHANGED <<rows, records, pending, current_athlete, current_meet,
                   current_source, parse_vars, scraper_vars>>
    /\ df' = Some(FinalFrame(records))

\* lines 223-239: the input is exhausted, flush the last performance and
\* build the table
FinalFlush ==
    LET f == flush(records, pending, current_source)
    IN /\ pc = "loop"
       /\ pc' = "done"
       /\ records' = f.records
       /\ pending' = f.pending
       /\ df' = Some(FinalFrame(f.records))
       /\ UNCHANGED <<rows, current_athlete, current_meet, current_source>>
       /\ UNCHANGED <<parse_vars, scraper_vars>>

Next ==
    \/ EmptyRow
    \/ AthleteHeader
    \/ MeetLine
    \/ StandaloneSource
    \/ DateRow
    \/ ReactionTimeRow
    \/ WindRow
    \/ OtherRow
    \/ FinalFlush

Spec == Init /\ [][Next]_vars

-----------------------------------------------------------------------------
(* parse_float on one cell *)

\* the cells handed to parse_float are texts of at most MaxCellLen
\* characters over CellChars, and the texts of LongCells
MaxCellLen == 3

CellChars == {"1", "0", ".", "-", "N", "a", " "}

\* line 24: re.sub(r"[^0-9\.\-]", "", s)
Kept(s) == FilterChars(s, {DigitChars[i] : i \in 1..10} \cup {".", "-"})

\* float(t) returns for the text t of digits, dots and minus signs: the
\* ValueError cases of FloatOf do not apply
FloatValid(t) ==
    LET body == IF t # <<>> /\ t[1] = "-" THEN Tail(t) ELSE t
        dots == {i \in 1..Len(body) : body[i] = "."}
    IN /\ \A i \in 1..Len(body) : body[i] # "-"
       /\ Cardinality(dots) <= 1
       /\ Len(body) - Cardinality(dots) > 0

\* the digits of the integer part of t, without leading zeros
IntDigits(t) ==
    LET body == IF t # <<>> /\ t[1] = "-" THEN Tail(t) ELSE t
        dots == {i \in 1..Len(body) : body[i] = "."}
        ip   == IF dots = {} THEN body
                ELSE SubSeq(body, 1, (CHOOSE i \in dots : TRUE) - 1)
        nz   == {i \in 1..Len(ip) : ip[i] # "0"}
    IN IF nz = {} THEN <<>>
       ELSE SubSeq(ip, CHOOSE i \in nz : \A j \in nz : i <= j, Len(ip))

\* 2^1024 - 2^970 in decimal, the least magnitude that float() rounds to
\* infinity
FloatMaxBound ==
    <<
       "1", "7", "9", "7", "6", "9", "3", "1", "3", "4", "8", "6", "2",
       "3", "1", "5", "8", "0", "7", "9", "3", "7", "2", "8", "9", "7",
       "1", "4", "0", "5", "3", "0", "3", "4", "1", "5", "0", "7", "9",
       "9", "3", "4", "1", "3", "2", "7", "1", "0", "0", "3", "7", "8",
       "2", "6", "9", "3", "6", "1", "7", "3", "7", "7", "8", "9", "8",
       "0", "4", "4", "4", "9", "6", "8", "2", "9", "2", "7", "6", "4",
       "7", "5", "0", "9", "4", "6", "6", "4", "9", "0", "1", "7", "9",
       "7", "7", "5", "8", "7", "2", "0", "7", "0", "9", "6", "3", "3",
       "0", "2", "8", "6", "4", "1", "6", "6", "9", "2", "8", "8", "7",
       "9", "1", "0", "9", "4", "6", "5", "5", "5", "5", "4", "7", "8",
       "5", "1", "9", "4", "0", "4", "0", "2", "6", "3", "0", "6", "5",
       "7", "4", "8", "8", "6", "7", "1", "5", "0", "5", "8", "2", "0",
       "6", "8", "1", "9", "0", "8", "9", "0", "2", "0", "0", "0", "7",
       "0", "8", "3", "8", "3", "6", "7", "6", "2", "7", "3", "8", "5",
       "4", "8", "4", "5", "8", "1", "7", "7", "1", "1", "5", "3", "1",
       "7", "6", "4", "4", "7", "5", "7", "3", "0", "2", "7", "0", "0",
       "6", "9", "8", "5", "5", "5", "7", "1", "3", "6", "6", "9", "5",
       "9", "6", "2", "2", "8", "4", "2", "9", "1", "4", "8", "1", "9",
       "8", "6", "0", "8", "3", "4", "9", "3", "6", "4", "7", "5", "2",
       "9", "2", "7", "1", "9", "0", "7", "4", "1", "6", "8", "4", "4",
       "4", "3", "6", "5", "5", "1", "0", "7", "0", "4", "3", "4", "2",
       "7", "1", "1", "5", "5", "9", "6", "9", "9", "5", "0", "8", "0",
       "9", "3", "0", "4", "2", "8", "8", "0", "1", "7", "7", "9", "0",
       "4", "1", "7", "4", "4", "9", "7", "7", "9", "2" >>

\* a >= b for two decimal integers given as digit texts without leading zeros
DigitsGE(a, b) ==
    IF Len(a) # Len(b) THEN Len(a) > Len(b)
    ELSE LET d == {i \in 1..Len(a) : a[i] # b[i]}
         IN \/ d = {}
            \/ LET k == CHOOSE i \in d : \A j \in d : i <= j
               IN DigitVal(a[k]) > DigitVal(b[k])

\* float(t) is inf or -inf: the conversion of a decimal text overflows to
\* infinity and raises nothing
FloatIsInf(t) == FloatValid(t) /\ DigitsGE(IntDigits(t), FloatMaxBound)

\* n copies of the character c
Repeat(c, n) == [i \in 1..n |-> c]

\* cells longer than MaxCellLen: the literals, words that spell special
\* floats, and runs of digits on both sides of the range of a float
LongCells ==
    { <<"N","U","L","L">>, <<"n","u","l","l">>, <<" ","N","u","l","l"," ">>,
      <<"n","a","n">>, <<"i","n","f">>, <<"1","e","5">>, <<"1","2",".","5","s">>,
      <<"1","4"," ","J","U","N"," ","2","0","2","4">>,
      Repeat("9", 308),
      Repeat("9", 309),
      FloatMaxBound,
      <<"-">> \o FloatMaxBound \o <<".","5">>,
      <<"1">> \o Repeat("0", 309),
      Repeat("0", 5) \o Repeat("9", 308),
      <<"1","7">> \o Repeat("0", 307) }

RECURSIVE TextsUpTo(_)
TextsUpTo(n) ==
    IF n = 0 THEN {<<>>}
    ELSE LET shorter == TextsUpTo(n - 1)
         IN shorter \cup {Append(s, c) : s \in shorter, c \in CellChars}

Cells == {None} \cup {Some(s) : s \in TextsUpTo(MaxCellLen) \cup LongCells}

\* lines 19-29: what parse_float(x) returns
\* (the value of a finite result is carried where the integers of the model
\* hold its thousandths)
ParseResult(x) ==
    IF FloatIsInf(Kept(norm(x))) THEN [kind |-> "inf"]
    ELSE IF FloatValid(Kept(norm(x))) /\ Len(IntDigits(Kept(norm(x)))) > 6
    THEN [kind |-> "finite", value |-> None]
    ELSE IF parse_float(x) = None THEN [kind |-> "absent"]
    ELSE [kind |-> "finite", value |-> parse_float(x)]

\* a cell of the input, not yet parsed
ParseInit ==
    /\ raw_cell \in Cells
    /\ parsed = [kind |-> "idle"]
    /\ ParserInit
    /\ ScraperIdle

\* one call parse_float(raw_cell)
ParseCell ==
    /\ parsed = [kind |-> "idle"]
    /\ parsed' = ParseResult(raw_cell)
    /\ UNCHANGED <<raw_cell, rows, records, current_athlete, current_meet,
                   current_source, pending, pc, df, scraper_vars>>

ParseNext == ParseCell

ParseSpec == ParseInit /\ [][ParseNext]_vars

-----------------------------------------------------------------------------
(* scraper.py: main() *)

\* the most meet links a year page yields, and the most race analysis
\* links a meet page yields
MaxMeets == 2

MaxLinks == 2

\* lines 12-20
YEAR_PAGES == <<2024, 2025, 2023, 2022, 2021, 2020>>

\* line 201 has made OUT_DIR; the loop of line 202 is at its first year page
ScraperInit ==
    /\ s_pc = "year"
    /\ year_idx = 0
    /\ meet_links = 0
    /\ ra_links = 0
    /\ saved = 0
    /\ failed = 0
    /\ ParserInit
    /\ ParseIdle

\* where main() is once a unit of work is over, with m meet links and l race
\* analysis links left to iterate: the innermost loop that has an item left
LoopAt(m, l) == IF l > 0 THEN "link" ELSE IF m > 0 THEN "meet" ELSE "year"

ScraperFrame ==
    UNCHANGED <<rows, records, current_athlete, current_meet, current_source,
                pending, pc, df, parse_vars>>

\* lines 202-205, 127-153: get_html returns the year page, which holds k
\* meet links
YearPageFetched ==
    /\ s_pc = "year"
    /\ year_idx < Len(YEAR_PAGES)
    /\ \E k \in 0..MaxMeets :
          /\ meet_links' = k
          /\ s_pc' = LoopAt(k, 0)
    /\ year_idx' = year_idx + 1
    /\ UNCHANGED <<ra_links, saved, failed>>
    /\ ScraperFrame

\* lines 30-37, 129-131: requests raises RequestException for the year page;
\* get_html reports it and the page yields no meet link
YearPageFailed ==
    /\ s_pc = "year"
    /\ year_idx < Len(YEAR_PAGES)
    /\ year_idx' = year_idx + 1
    /\ meet_links' = 0
    /\ failed' = failed + 1
    /\ s_pc' = "year"
    /\ UNCHANGED <<ra_links, saved>>
    /\ ScraperFrame

\* lines 206-209, 155-196: get_html returns the meet page, which holds k
\* race analysis links
MeetPageFetched ==
    /\ s_pc = "meet"
    /\ meet_links' = meet_links - 1
    /\ \E k \in 0..MaxLinks :
          /\ ra_links' = k
          /\ s_pc' = LoopAt(meet_links - 1, k)
    /\ UNCHANGED <<year_idx, saved, failed>>
    /\ ScraperFrame

\* lines 30-37, 160-162, 208-209: requests raises RequestException for the
\* meet page; get_html reports it and the meet is skipped
MeetPageFailed ==
    /\ s_pc = "meet"
    /\ meet_links' = meet_links - 1
    /\ ra_links' = 0
    /\ failed' = failed + 1
    /\ s_pc' = LoopAt(meet_links - 1, 0)
    /\ UNCHANGED <<year_idx, saved>>
    /\ ScraperFrame

\* lines 108-120, 213-216: the document is fetched and written
DownloadSaved ==
    /\ s_pc = "link"
    /\ ra_links' = ra_links - 1
    /\ saved' = saved + 1
    /\ s_pc' = LoopAt(meet_links, ra_links - 1)
    /\ UNCHANGED <<year_idx, meet_links, failed>>
    /\ ScraperFrame

\* lines 110-111, 117, 121-123, 217-218: requests raises RequestException;
\* download_pdf reports it and returns None
DownloadFailed ==
    /\ s_pc = "link"
    /\ ra_links' = ra_links - 1
    /\ failed' = failed + 1
    /\ s_pc' = LoopAt(meet_links, ra_links - 1)
    /\ UNCHANGED <<year_idx, meet_links, saved>>
    /\ ScraperFrame

\* lines 114-119: os.makedirs, open or f.write raises OSError; the except
\* clause of line 121 names requests.RequestException only, so the exception
\* leaves download_pdf and main()
DownloadIOError ==
    /\ s_pc = "link"
    /\ s_pc' = "crashed"
    /\ UNCHANGED <<year_idx, meet_links, ra_links, saved, failed>>
    /\ ScraperFrame

\* line 202: YEAR_PAGES is exhausted and main() returns
RunEnds ==
    /\ s_pc = "year"
    /\ year_idx = Len(YEAR_PAGES)
    /\ s_pc' = "done"
    /\ UNCHANGED <<year_idx, meet_links, ra_links, saved, failed>>
    /\ ScraperFrame

ScraperNext ==
    \/ YearPageFetched
    \/ YearPageFailed
    \/ MeetPageFetched
    \/ MeetPageFailed
    \/ DownloadSaved
    \/ DownloadFailed
    \/ DownloadIOError
    \/ RunEnds

ScraperSpec == ScraperInit /\ [][ScraperNext]_vars

-----------------------------------------------------------------------------
(* Vocabulary of the properties *)

Last(s) == s[Len(s)]

\* this step hands a row to the loop body
RowStep == Len(rows') = Len(rows) + 1

\* the row this step hands to the loop body
NewRow == rows'[Len(rows')]

\* this step is the flush that follows the loop
EndStep == pc = "loop" /\ pc' = "done"

IsDateRow(r) == BranchOf[r] = "date"

Absent(d, k) == Get(d, k) = None

Present(d, k) == Get(d, k) # None

FreshKeys == {"Athlete", "Meet Info", "Date", "50m", "100m", "150m", "200m",
              "Time", "Lane_Place", "Source"}

LaterKeys == {"RT", "Wind", "Vel_50m", "Vel_100m", "Vel_150m", "Vel_200m",
              "StrideRate"}

\* the Date, Lane/Place, splits and Time of the dict d are those of the
\* date row r
FromRow(d, r) ==
    LET t_idx == find_token_idx(r, tTime)
        sp    == Splits(r, t_idx)
    IN /\ FreshKeys \subseteq DOMAIN d
       /\ d["Date"] = first_nonempty_after(r, find_token_idx(r, tDate)[1])
       /\ d["Lane_Place"] = LanePlace(r, t_idx)
       /\ d["50m"] = sp.s50 /\ d["100m"] = sp.s100
       /\ d["150m"] = sp.s150 /\ d["200m"] = sp.s200
       /\ d["Time"] = IF sp.time_val # None THEN sp.time_val ELSE sp.s200

-----------------------------------------------------------------------------
(* C1 *)

\* C1: a reaction time row (a "reaction time" cell followed by a non-empty
\* cell) handled while no pending record is open is a no-op: pending stays
\* empty and no record is emitted because of it.
C1_ReactionIdleNoOp ==
    [][(/\ RowStep
        /\ BranchOf[NewRow] = "rt"
        /\ Truthy(first_nonempty_after(NewRow,
                                       find_token_idx(NewRow, tReaction)[1]))
        /\ DOMAIN pending = {})
       => (DOMAIN pending' = {} /\ records' = records)]_vars

-----------------------------------------------------------------------------
(* C2 *)

\* C2: when the input is exhausted the output holds exactly one record per
\* date row of the input, in the order of the date rows.
C2_OneRecordPerDateRow ==
    pc = "done" =>
       LET dates == SelectSeq(rows, IsDateRow)
       IN /\ Len(records) = Len(dates)
          /\ \A i \in 1..Len(dates) : FromRow(records[i], dates[i])

-----------------------------------------------------------------------------
(* C3 *)

\* C3: two date rows handled one after the other give two records with no
\* data of one in the other: when the input ends after them, the last two
\* records carry the Date, Lane/Place, splits and Time of their own row,
\* neither carries a reaction time, wind, velocity or stride rate, and an
\* input of date rows only gives one record per row.
C3_ConsecutiveDateRows ==
    (/\ pc = "done"
     /\ Len(rows) >= 2
     /\ IsDateRow(rows[Len(rows) - 1])
     /\ IsDateRow(rows[Len(rows)]))
    => /\ Len(records) >= 2
       /\ FromRow(records[Len(records) - 1], rows[Len(rows) - 1])
       /\ FromRow(records[Len(records)], rows[Len(rows)])
       /\ DOMAIN records[Len(records) - 1] \cap LaterKeys = {}
       /\ DOMAIN records[Len(records)] \cap LaterKeys = {}
       /\ (\A i \in 1..Len(rows) : IsDateRow(rows[i]))
             => Len(records) = Len(rows)

\* two different date rows were handled one after the other and the input
\* ended: the two records differ in their splits
C3_Witness ==
    /\ pc = "done"
    /\ Len(rows) = 2
    /\ IsDateRow(rows[1]) /\ IsDateRow(rows[2])
    /\ Len(records) = 2
    /\ Present(records[1], "50m") /\ Present(records[2], "50m")
    /\ records[1]["50m"] # records[2]["50m"]

-----------------------------------------------------------------------------
(* C4 *)

\* a row that is neither an athlete header, a meet line nor a date row
Below3(r) ==
    /\ r # <<>>
    /\ ~looks_like_athlete(r[1])
    /\ ~is_meet_line(r)
    /\ find_token_idx(r, tDate) = None

HasSourceMarker(r) == is_source_text(Join(r, <<",">>))

\* C4 as stated: the order is athlete, meet, date, reaction time, wind,
\* source; a row below the first three that holds a "reaction time" cell is
\* handled by the reaction time handler, else one that holds a "wind" cell
\* by the wind handler, also when its text holds a source marker, and the
\* source handler leaves such rows alone.
C4_SourceLast ==
    [][(RowStep /\ Below3(NewRow))
       => IF find_token_idx(NewRow, tReaction) # None
          THEN /\ pending' = ReactionPending(NewRow, pending)
               /\ current_source' = current_source
          ELSE IF find_token_idx(NewRow, tWind) # None
          THEN /\ pending' = WindPending(NewRow, pending)
               /\ current_source' = current_source
          ELSE TRUE]_vars

\* C4 amended: the order is athlete, meet, source (a marker in the joined
\* text and no "date" cell), date, reaction time, wind, first match wins.  A
\* row below athlete and meet whose text holds a source marker and that has
\* no "date" cell only sets the source context to its last non-empty cell,
\* also when it holds a "reaction time" or "wind" cell; the date, reaction
\* time and wind handlers run only for rows the earlier tests do not match.
C4_SourceThird ==
    [][(RowStep /\ NewRow # <<>> /\ ~looks_like_athlete(NewRow[1])
          /\ ~is_meet_line(NewRow))
       => IF HasSourceMarker(NewRow) /\ find_token_idx(NewRow, tDate) = None
          THEN /\ current_source' = last_nonempty(NewRow)
               /\ UNCHANGED <<pending, records, current_athlete, current_meet>>
          ELSE IF find_token_idx(NewRow, tDate) # None
          THEN /\ FromRow(pending', NewRow)
               /\ UNCHANGED <<current_athlete, current_meet, current_source>>
          ELSE IF find_token_idx(NewRow, tReaction) # None
          THEN /\ pending' = ReactionPending(NewRow, pending)
               /\ UNCHANGED <<records, current_athlete, current_meet,
                              current_source>>
          ELSE IF find_token_idx(NewRow, tWind) # None
          THEN /\ pending' = WindPending(NewRow, pending)
               /\ UNCHANGED <<records, current_athlete, current_meet,
                              current_source>>
          ELSE UNCHANGED <<pending, records, current_athlete, current_meet,
                           current_source>>]_vars

\* a row with a "reaction time" cell and a source marker was handled while a
\* record was open: it became the source context and set no reaction time
C4_Witness ==
    /\ pc = "loop"
    /\ Len(rows) >= 2
    /\ IsDateRow(rows[Len(rows) - 1])
    /\ Below3(Last(rows))
    /\ find_token_idx(Last(rows), tReaction) # None
    /\ HasSourceMarker(Last(rows))
    /\ current_source = last_nonempty(Last(rows))
    /\ "RT" \notin DOMAIN pending

-----------------------------------------------------------------------------
(* C5 *)

\* C5: a flush that directly follows a flush appends nothing and leaves
\* pending empty, and flush on an empty pending changes nothing.  In every
\* reachable state flush applied to what flush leaves returns it unchanged;
\* and a step that calls flush on an empty pending (an athlete header or
\* the end of the input, as after an athlete header) leaves records and
\* pending as they are and, at the end of the input, the context too.
C5_FlushIdempotent ==
    [][/\ flush(flush(records, pending, current_source).records,
                flush(records, pending, current_source).pending,
                current_source)
            = flush(records, pending, current_source)
       /\ DOMAIN flush(records, pending, current_source).pending = {}
       /\ (DOMAIN pending = {} /\ RowStep /\ BranchOf[NewRow] = "athlete")
             => (records' = records /\ pending' = pending)
       /\ (DOMAIN pending = {} /\ EndStep)
             => UNCHANGED <<records, pending, current_athlete, current_meet,
                            current_source>>]_vars

\* the input ended right after an athlete header that flushed an open
\* record: the final flush was the second of two in succession
C5_Witness ==
    /\ pc = "done"
    /\ Len(rows) >= 2
    /\ IsDateRow(rows[Len(rows) - 1])
    /\ BranchOf[Last(rows)] = "athlete"
    /\ Len(records) = 1
    /\ DOMAIN pending = {}

-----------------------------------------------------------------------------
(* C6 *)

\* C6: when the input ends with pending not empty, exactly one record is
\* appended, the one flush produces from pending and the source context at
\* that point (derived fields, key, inherited source); when it ends with
\* pending empty, nothing is appended.  Pending is empty afterwards.
C6_EndOfInput ==
    [][EndStep
       => /\ IF DOMAIN pending # {}
             THEN /\ Len(records') = Len(records) + 1
                  /\ SubSeq(records', 1, Len(records)) = records
                  /\ Last(records') = Completed(pending, current_source)
                  /\ DOMAIN pending \subseteq DOMAIN Last(records')
                  /\ "Ath_Mt_Strd" \in DOMAIN Last(records')
             ELSE records' = records
          /\ DOMAIN pending' = {}]_vars

\* the input ended with a record open on a date row: one record came out
C6_Witness ==
    /\ pc = "done"
    /\ Len(rows) = 1
    /\ IsDateRow(rows[1])
    /\ Len(records) = 1
    /\ Present(records[1], "Vel_0_100m")

-----------------------------------------------------------------------------
(* C7 *)

LausanneMeet ==
    <<"L","a","u","s","a","n","n","e"," ","D","i","a","m","o","n","d"," ",
      "L","e","a","g","u","e"," ","-"," ","2","0","0","m">>

\* the numeric cells after the 'time' anchor of the row r, in order
NumsAfterTime(r) ==
    IF find_token_idx(r, tTime) = None THEN <<>>
    ELSE NumsOf(SubSeq(r, find_token_idx(r, tTime)[1] + 1, Len(r)))

\* y (thousandths, a whole number of hundredths) is x rounded to two
\* decimals
IsRound2Of(y, x) == y % 10 = 0 /\ y - x <= 5 /\ x - y <= 5

\* v (thousandths, a whole number of hundredths) is 100 / t rounded to two
\* decimals, for t > 0 in thousandths
IsVelOf(v, t) ==
    /\ v % 10 = 0
    /\ LET d == (v \div 10) * t - 10000000
       IN (IF d < 0 THEN 0 - d ELSE d) * 2 <= t

\* C7: the input ended after a meet line followed by a date row with at
\* least four numerics after the 'time' anchor: the last record has the
\* meet line's text as Meet, the first four numerics as the 50/100/150/200m
\* splits, the fifth as Time (the 200m split when there are exactly four),
\* 0-100m = split@100m, 100-200m = split@200m - split@100m, and each
\* velocity = 100 / its segment time rounded to two decimals (where that
\* time is positive).  For 5.82/10.10/14.55/19.95 after the Lausanne meet
\* line: 10.10, 9.90, 9.85, 10.15.
C7_MeetThenDateRow ==
    (/\ pc = "done"
     /\ Len(rows) >= 2
     /\ BranchOf[rows[Len(rows) - 1]] = "meet"
     /\ IsDateRow(Last(rows))
     /\ Len(NumsAfterTime(Last(rows))) >= 4)
    => LET nums == NumsAfterTime(Last(rows))
           rec  == Last(records)
       IN /\ rec["Meet Info"] = Some(norm(Some(rows[Len(rows) - 1][2])))
          /\ rec["50m"] = Some(nums[1]) /\ rec["100m"] = Some(nums[2])
          /\ rec["150m"] = Some(nums[3]) /\ rec["200m"] = Some(nums[4])
          /\ rec["Time"] = Some(IF Len(nums) >= 5 THEN nums[5] ELSE nums[4])
          /\ Present(rec, "0-100m") /\ IsRound2Of(rec["0-100m"][1], nums[2])
          /\ Present(rec, "100-200m")
          /\ IsRound2Of(rec["100-200m"][1], nums[4] - nums[2])
          /\ nums[2] > 0 => /\ Present(rec, "Vel_0_100m")
                            /\ IsVelOf(rec["Vel_0_100m"][1], nums[2])
          /\ nums[4] - nums[2] > 0
                => /\ Present(rec, "Vel_100_200m")
                   /\ IsVelOf(rec["Vel_100_200m"][1], nums[4] - nums[2])
          /\ (nums = <<5820, 10100, 14550, 19950, 19950>>
              /\ rows[Len(rows) - 1][2] = LausanneMeet)
                => /\ rec["Meet Info"] = Some(LausanneMeet)
                   /\ rec["0-100m"] = Some(10100)
                   /\ rec["Vel_0_100m"] = Some(9900)
                   /\ rec["100-200m"] = Some(9850)
                   /\ rec["Vel_100_200m"] = Some(10150)
                   /\ rec["Time"] = Some(19950)

\* the Lausanne meet line and the date row with 5.82/10.10/14.55/19.95/19.95
\* were handled and the input ended
C7_Witness ==
    /\ pc = "done"
    /\ Len(rows) = 2
    /\ BranchOf[rows[1]] = "meet"
    /\ rows[1][2] = LausanneMeet
    /\ IsDateRow(rows[2])
    /\ NumsAfterTime(rows[2]) = <<5820, 10100, 14550, 19950, 19950>>
    /\ Len(records) = 1
    /\ records[1]["Vel_100_200m"] = Some(10150)

-----------------------------------------------------------------------------
(* C8 *)

\* C8 as stated: in every record, Vel_0_100m is absent when the 100m split
\* is absent and present and strictly positive when it is positive;
\* Vel_100_200m is absent when the 100m or 200m split is absent and present
\* and strictly positive when 200m - 100m is positive; a segment time <= 0
\* leaves the velocity absent.
C8_VelocityPositive ==
    \A i \in 1..Len(records) :
       LET rec  == records[i]
           t100 == Get(rec, "100m")
           t200 == Get(rec, "200m")
       IN /\ t100 = None => Absent(rec, "Vel_0_100m")
          /\ (t100 = None \/ t200 = None) => Absent(rec, "Vel_100_200m")
          /\ (t100 # None /\ t100[1] > 0)
                => (Present(rec, "Vel_0_100m") /\ rec["Vel_0_100m"][1] > 0)
          /\ (t100 # None /\ t100[1] <= 0) => Absent(rec, "Vel_0_100m")
          /\ (t100 # None /\ t200 # None /\ t200[1] - t100[1] > 0)
                => (Present(rec, "Vel_100_200m")
                    /\ rec["Vel_100_200m"][1] > 0)
          /\ (t100 # None /\ t200 # None /\ t200[1] - t100[1] <= 0)
                => Absent(rec, "Vel_100_200m")

\* C8 amended: as stated, but a present velocity is 100 / segment time
\* rounded to two decimals and so is only non-negative: it is strictly
\* positive when the segment time is below 20000 s and is 0.0 for longer
\* ones.
C8_VelocityNonNegative ==
    \A i \in 1..Len(records) :
       LET rec  == records[i]
           t100 == Get(rec, "100m")
           t200 == Get(rec, "200m")
       IN /\ t100 = None => Absent(rec, "Vel_0_100m")
          /\ (t100 = None \/ t200 = None) => Absent(rec, "Vel_100_200m")
          /\ (t100 # None /\ t100[1] > 0)
                => /\ Present(rec, "Vel_0_100m")
                   /\ rec["Vel_0_100m"][1] >= 0
                   /\ IsVelOf(rec["Vel_0_100m"][1], t100[1])
                   /\ t100[1] < 20000000 => rec["Vel_0_100m"][1] > 0
          /\ (t100 # None /\ t100[1] <= 0) => Absent(rec, "Vel_0_100m")
          /\ (t100 # None /\ t200 # None /\ t200[1] - t100[1] > 0)
                => /\ Present(rec, "Vel_100_200m")
                   /\ rec["Vel_100_200m"][1] >= 0
                   /\ IsVelOf(rec["Vel_100_200m"][1], t200[1] - t100[1])
                   /\ t200[1] - t100[1] < 20000000
                         => rec["Vel_100_200m"][1] > 0
          /\ (t100 # None /\ t200 # None /\ t200[1] - t100[1] <= 0)
                => Absent(rec, "Vel_100_200m")

\* the output holds a record with a velocity, one whose 100m split is zero,
\* one whose second segment is negative and one without splits
C8_Witness ==
    /\ \E i \in 1..Len(records) :
          Present(records[i], "Vel_0_100m") /\ Present(records[i], "Vel_100_200m")
    /\ \E i \in 1..Len(records) :
          /\ Present(records[i], "100m") /\ Present(records[i], "200m")
          /\ records[i]["100m"][1] <= 0 \/ records[i]["200m"][1] <= records[i]["100m"][1]
    /\ \E i \in 1..Len(records) :
          "100m" \in DOMAIN records[i] /\ Absent(records[i], "100m")

-----------------------------------------------------------------------------
(* C9 *)

\* C9: the rows handled as date, reaction time, wind or unmatched rows
\* leave the athlete, meet and source context unchanged; a source line
\* leaves athlete and meet unchanged; a meet line leaves the athlete
\* unchanged; an unmatched (or empty) row changes nothing at all.
C9_ContextFrame ==
    [][RowStep
       => /\ BranchOf[NewRow] \in {"date", "rt", "wind", "none", "empty"}
                => UNCHANGED <<current_athlete, current_meet, current_source>>
          /\ BranchOf[NewRow] = "source"
                => UNCHANGED <<current_athlete, current_meet>>
          /\ BranchOf[NewRow] = "meet" => UNCHANGED current_athlete
          /\ BranchOf[NewRow] \in {"none", "empty"}
                => UNCHANGED <<current_athlete, current_meet, current_source,
                               pending, records>>]_vars

\* with athlete, meet and source context set and a record open, an
\* unmatched row was handled
C9_Witness ==
    /\ pc = "loop"
    /\ Len(rows) = MaxRows
    /\ BranchOf[Last(rows)] = "none"
    /\ current_meet # None /\ current_source # None
    /\ DOMAIN pending # {}

-----------------------------------------------------------------------------
(* C10 *)

\* the index of the last athlete header among the rows, 0 if there is none
LastHeader ==
    LET hs == {i \in 1..Len(rows) : BranchOf[rows[i]] = "athlete"}
    IN IF hs = {} THEN 0 ELSE CHOOSE i \in hs : \A j \in hs : j <= i

\* C10: an athlete header first flushes the open record, which keeps the
\* athlete and meet it was opened with and takes its own source or else the
\* source context of the section it ends; then the athlete context is the
\* header cell and the meet and source context are unset.  Hence while no
\* meet line or source line has followed the last header, the context is
\* that, and a record a date row opens has the header's athlete and no
\* meet and no source, and so has the record flushed from it.
C10_AthleteHeader ==
    /\ [][(RowStep /\ BranchOf[NewRow] = "athlete")
          => /\ current_athlete' = Some(NewRow[1])
             /\ current_meet' = None
             /\ current_source' = None
             /\ DOMAIN pending' = {}
             /\ IF DOMAIN pending = {} THEN records' = records
                ELSE /\ Len(records') = Len(records) + 1
                     /\ SubSeq(records', 1, Len(records)) = records
                     /\ \A k \in DOMAIN pending \ {"Source"} :
                           Last(records')[k] = pending[k]
                     /\ Get(Last(records'), "Source")
                          = IF Truthy(Get(pending, "Source"))
                            THEN pending["Source"]
                            ELSE IF Truthy(current_source)
                            THEN current_source
                            ELSE Get(pending, "Source")]_vars
    /\ [](( /\ pc = "loop"
            /\ LastHeader > 0
            /\ \A i \in (LastHeader + 1)..Len(rows) :
                  BranchOf[rows[i]] \notin {"meet", "source"})
          => /\ current_athlete = Some(rows[LastHeader][1])
             /\ current_meet = None
             /\ current_source = None
             /\ IsDateRow(Last(rows))
                   => /\ pending["Athlete"] = Some(rows[LastHeader][1])
                      /\ pending["Meet Info"] = None
                      /\ pending["Source"] = None
                      /\ Completed(pending, current_source)["Athlete"]
                            = Some(rows[LastHeader][1])
                      /\ Absent(Completed(pending, current_source), "Meet Info")
                      /\ Absent(Completed(pending, current_source), "Source"))

\* a meet line with a source, a date row and then an athlete header: the
\* record of the first section was flushed with its meet and source, and the
\* context holds the new athlete only
C10_Witness ==
    /\ pc = "loop"
    /\ Len(rows) = 3
    /\ BranchOf[rows[1]] = "meet"
    /\ IsDateRow(rows[2])
    /\ BranchOf[rows[3]] = "athlete"
    /\ Len(records) = 1
    /\ Present(records[1], "Meet Info") /\ Present(records[1], "Source")
    /\ current_athlete = Some(rows[3][1])
    /\ current_meet = None /\ current_source = None

-----------------------------------------------------------------------------
(* C11 *)

\* the texts of the Athlete, Meet and Stride Rate of the record d that are
\* set, in that order
KeyParts(d) ==
    (IF Truthy(Get(d, "Athlete")) THEN <<Get(d, "Athlete")[1]>> ELSE <<>>)
    \o (IF Truthy(Get(d, "Meet Info"))
        THEN <<Get(d, "Meet Info")[1]>> ELSE <<>>)
    \o (IF Present(d, "StrideRate")
        THEN <<IntToStr(Get(d, "StrideRate")[1])>> ELSE <<>>)

\* C11: the composite key of every completed record is its Athlete, Meet and
\* Stride Rate joined by "_" with the unset components left out: an unset
\* component adds no text, no placeholder and no separator.
C11_KeyOmitsEmpty ==
    \A i \in 1..Len(records) :
        records[i]["Ath_Mt_Strd"] = Some(Join(KeyParts(records[i]), <<"_">>))

-----------------------------------------------------------------------------
(* C12 *)

\* the cell is empty after norm, or is the literal NA or NULL in any case
AbsentLiteral(x) ==
    \/ norm(x) = <<>>
    \/ Upper(norm(x)) \in {<<"N","A">>, <<"N","U","L","L">>}

\* C12: for every cell, parse_float returns and raises nothing: an empty
\* cell and the literals NA and NULL give absent, a cell whose stripped text
\* float() cannot convert gives absent, and every other result is a finite
\* number.
C12_ParseFloatTotal ==
    parsed # [kind |-> "idle"]
        => /\ parsed.kind \in {"absent", "finite"}
           /\ AbsentLiteral(raw_cell) => parsed.kind = "absent"
           /\ ~FloatValid(Kept(norm(raw_cell))) => parsed.kind = "absent"
           /\ (~AbsentLiteral(raw_cell) /\ FloatValid(Kept(norm(raw_cell))))
                 => parsed.kind = "finite"

-----------------------------------------------------------------------------
(* C13 *)

\* the column order the output promises
OutputColumns ==
    <<"Athlete", "Meet Info", "Lane_Place", "Wind", "Date", "RT",
      "50m", "100m", "150m", "200m", "Time",
      "0-100m", "100-200m", "Differential",
      "Vel_50m", "Vel_100m", "Vel_150m", "Vel_200m",
      "Vel_0_100m", "Vel_100_200m",
      "StrideRate", "Source", "Ath_Mt_Strd">>

OutputColumnSet == {OutputColumns[k] : k \in 1..Len(OutputColumns)}

\* C13: every field name a handler or flush places on a record is one of the
\* output columns; the table has exactly the output columns, in their order,
\* whatever the input (empty input included), one line per record, and a
\* column the record never set holds the null marker.
C13_FixedColumns ==
    /\ DOMAIN pending \subseteq OutputColumnSet
    /\ \A i \in 1..Len(records) : DOMAIN records[i] \subseteq OutputColumnSet
    /\ pc = "done"
          => /\ df # None
             /\ df[1].columns = OutputColumns
             /\ DOMAIN df[1].data = 1..Len(records)
             /\ \A i \in 1..Len(records) :
                   /\ DOMAIN df[1].data[i] = OutputColumnSet
                   /\ \A c \in OutputColumnSet :
                         df[1].data[i][c] = Get(records[i], c)

\* the table of an input with a date row and no reaction time row: the
\* record never set RT, and its line holds the null marker there and the
\* 50m split of the row
C13_Witness ==
    /\ pc = "done"
    /\ Len(records) >= 1
    /\ "RT" \notin DOMAIN records[1]
    /\ Present(records[1], "50m")
    /\ df[1].data[1]["RT"] = None
    /\ df[1].data[1]["50m"] = records[1]["50m"]

-----------------------------------------------------------------------------
(* C14 *)

\* C14: a retrieval or I/O failure for one page or document never ends the
\* run of the scraper: main() is never left by an exception, and when it
\* returns every year page has been fetched and no meet link or race
\* analysis link found is left unattempted.
C14_FailureSkipsOneUnit ==
    /\ s_pc # "crashed"
    /\ s_pc = "done"
          => /\ year_idx = Len(YEAR_PAGES)
             /\ meet_links = 0
             /\ ra_links = 0

-----------------------------------------------------------------------------
(* C15 *)

\* the dict d holds the first four numbers of nums as its splits and the
\* fifth as its Time, or the fourth when there is no fifth
SplitsFrom(d, nums) ==
    /\ d["50m"] = Some(nums[1]) /\ d["100m"] = Some(nums[2])
    /\ d["150m"] = Some(nums[3]) /\ d["200m"] = Some(nums[4])
    /\ d["Time"] = Some(IF Len(nums) >= 5 THEN nums[5] ELSE nums[4])

\* C15: after a date row, when the primary strategy found no splits (no
\* 'time' anchor, or fewer than four numeric cells after it) and the whole
\* row holds at least four numeric cells, the record's splits are the first
\* four numeric cells of the row and its Time is the fifth (the 200m split
\* when there are four); when the primary strategy found the splits, they
\* are the numerics after the anchor and the fallback has not replaced them.
C15_FallbackWholeRow ==
    (pc = "loop" /\ rows # <<>> /\ IsDateRow(Last(rows)))
        => /\ (Len(NumsAfterTime(Last(rows))) < 4
                  /\ Len(NumsOf(Last(rows))) >= 4)
                 => SplitsFrom(pending, NumsOf(Last(rows)))
           /\ Len(NumsAfterTime(Last(rows))) >= 4
                 => SplitsFrom(pending, NumsAfterTime(Last(rows)))

\* a date row with a 'time' anchor, two numerics after it and four in the
\* whole row: the splits are the four numerics of the row
C15_Witness ==
    /\ pc = "loop" /\ rows # <<>> /\ IsDateRow(Last(rows))
    /\ find_token_idx(Last(rows), tTime) # None
    /\ Len(NumsAfterTime(Last(rows))) = 2
    /\ Len(NumsOf(Last(rows))) = 4
    /\ pending["50m"] = Some(5900) /\ pending["200m"] = Some(20100)
    /\ pending["Time"] = Some(20100)

-----------------------------------------------------------------------------
(* C16 *)

\* the positions of the non-empty cells of r after its 'reaction time' anchor
AfterReaction(r) ==
    {j \in (find_token_idx(r, tReaction)[1] + 1)..Len(r) : r[j] # <<>>}

\* C16: a reaction time row handled while a record is open sets the record's
\* RT to the parsed value of the first non-empty cell after the anchor and
\* changes nothing else: every other field of the record, the Athlete, Meet
\* and Source context and the output sequence stay as they were, and nothing
\* is flushed.
C16_ReactionOnOpenRecord ==
    [][ (RowStep /\ BranchOf[NewRow] = "rt" /\ pending # EmptyDict)
           => /\ records' = records
              /\ current_athlete' = current_athlete
              /\ current_meet' = current_meet
              /\ current_source' = current_source
              /\ DOMAIN pending' = DOMAIN pending \cup {"RT"}
              /\ \A k \in DOMAIN pending \ {"RT"} : pending'[k] = pending[k]
              /\ AfterReaction(NewRow) # {}
                    => pending'["RT"] =
                          parse_float(Some(NewRow[
                              CHOOSE j \in AfterReaction(NewRow) :
                                 \A k \in AfterReaction(NewRow) : j <= k]))
       ]_vars

\* a date row and then the row "Reaction time", "0.142": the open record has
\* RT 0.142 and still its date, and nothing was emitted
C16_Witness ==
    /\ pc = "loop"
    /\ Len(rows) = 2
    /\ IsDateRow(rows[1])
    /\ BranchOf[rows[2]] = "rt"
    /\ pending["RT"] = Some(142)
    /\ FromRow(pending, rows[1])
    /\ records = <<>>

-----------------------------------------------------------------------------
(* C17 *)

\* this step appends a record to the output
Emits == Len(records') = Len(records) + 1

\* C17: a date row opens its record with the Source context of that moment;
\* a record emitted by a flush has the Source it was opened with when that
\* was set, and otherwise the Source context in effect at the flush; a
\* source line or a meet line changes neither the open record nor a record
\* already emitted.
C17_SourceOfRecord ==
    [][ /\ (RowStep /\ IsDateRow(NewRow))
            => pending'["Source"] = current_source
        /\ Emits
            => /\ SubSeq(records', 1, Len(records)) = records
               /\ Get(Last(records'), "Source") =
                     IF Truthy(Get(pending, "Source"))
                     THEN pending["Source"]
                     ELSE IF Truthy(current_source) THEN current_source
                     ELSE None
        /\ (RowStep /\ BranchOf[NewRow] \in {"source", "meet"})
            => /\ pending' = pending
               /\ records' = records
      ]_vars

\* a meet line that carries a source, a date row, then a source line of
\* another text, then the end of the input: the record has the source of the
\* meet line, not the later one
C17_Witness ==
    /\ pc = "done"
    /\ Len(rows) = 3
    /\ BranchOf[rows[1]] = "meet"
    /\ IsDateRow(rows[2])
    /\ BranchOf[rows[3]] = "source"
    /\ Len(records) = 1
    /\ records[1]["Source"] = Some(<<"S","e","i","k","o"," ","T","i","m","i","n","g">>)
    /\ current_source # records[1]["Source"]

-----------------------------------------------------------------------------
(* C18 *)

\* the number written by the digits s
RECURSIVE NatOf(_)
NatOf(s) ==
    IF s = <<>> THEN 0
    ELSE NatOf(SubSeq(s, 1, Len(s) - 1)) * 10 + DigitVal(s[Len(s)])

\* the cell c is a run of digits that writes an integer of 20..130
IsStrideCell(c) ==
    /\ c # <<>>
    /\ \A i \in 1..Len(c) : IsDigit(c[i])
    /\ NatOf(c) >= 20 /\ NatOf(c) <= 130

\* the positions of the stride cells of r after its 'velocity' anchor
StrideCells(r) ==
    IF find_token_idx(r, tVelocity) = None THEN {}
    ELSE {j \in (find_token_idx(r, tVelocity)[1] + 1)..Len(r) :
             IsStrideCell(r[j])}

\* the Stride Rate of the dict d, when it has one, is an integer of 20..130
StrideInRange(d) ==
    Present(d, "StrideRate")
        => d["StrideRate"][1] >= 20 /\ d["StrideRate"][1] <= 130

\* C18: the Stride Rate of the open record and of every emitted record, when
\* present, is an integer of 20..130; a wind row sets it to the first cell
\* after its 'velocity' anchor that is a run of digits with a value in that
\* range, and a wind row with no anchor or no such cell leaves it as it was.
C18_StrideRate ==
    /\ [][ (RowStep /\ BranchOf[NewRow] = "wind")
              => IF StrideCells(NewRow) = {}
                 THEN /\ Get(pending', "StrideRate") = Get(pending, "StrideRate")
                      /\ "StrideRate" \in DOMAIN pending'
                            <=> "StrideRate" \in DOMAIN pending
                 ELSE pending'["StrideRate"] =
                         Some(NatOf(NewRow[CHOOSE j \in StrideCells(NewRow) :
                                \A k \in StrideCells(NewRow) : j <= k]))
         ]_vars
    /\ [](/\ StrideInRange(pending)
          /\ \A i \in 1..Len(records) : StrideInRange(records[i]))

\* a date row, the wind row with cells 9.1, 131 and 45 after 'velocity', and
\* then the wind row with cells 10 and 131: the first set the Stride Rate to
\* 45, passing over 131, and the second left it
C18_Witness ==
    /\ pc = "loop"
    /\ Len(rows) = 3
    /\ IsDateRow(rows[1])
    /\ BranchOf[rows[2]] = "wind" /\ StrideCells(rows[2]) # {}
    /\ BranchOf[rows[3]] = "wind" /\ StrideCells(rows[3]) = {}
    /\ find_token_idx(rows[3], tVelocity) # None
    /\ pending["StrideRate"] = Some(45)
    /\ pending["Vel_100m"] = Some(131000)

-----------------------------------------------------------------------------
(* C19 *)

SplitKeys == {"50m", "100m", "150m", "200m"}

\* the four splits and the Time of the dict d are all present, or all absent
AllOrNothing(d) ==
    \/ \A k \in SplitKeys \cup {"Time"} : Present(d, k)
    \/ \A k \in SplitKeys \cup {"Time"} : Absent(d, k)

\* C19: in the open record and in every emitted record that a date row
\* opened, the four splits and Time are all present or all absent; a date
\* row with fewer than four numeric cells opens a record with absent splits,
\* and when the input ends there that record is emitted, with its date and
\* with absent splits.
C19_SplitsAllOrNothing ==
    /\ "Date" \in DOMAIN pending => AllOrNothing(pending)
    /\ \A i \in 1..Len(records) :
          "Date" \in DOMAIN records[i] => AllOrNothing(records[i])
    /\ (rows # <<>> /\ IsDateRow(Last(rows)) /\ Len(NumsOf(Last(rows))) < 4)
          => /\ pc = "loop"
                => /\ FromRow(pending, Last(rows))
                   /\ \A k \in SplitKeys \cup {"Time"} : Absent(pending, k)
             /\ pc = "done"
                => /\ records # <<>>
                   /\ FromRow(Last(records), Last(rows))
                   /\ \A k \in SplitKeys \cup {"Time"} :
                         Absent(Last(records), k)

\* the input was the one date row "Date", "4 MAY", "Time", "5.9", "Timing":
\* one record, with the date and without splits
C19_Witness ==
    /\ pc = "done"
    /\ Len(rows) = 1
    /\ IsDateRow(rows[1])
    /\ Len(NumsOf(rows[1])) = 2
    /\ Len(records) = 1
    /\ records[1]["Date"] = Some(<<"4"," ","M","A","Y">>)
    /\ Absent(records[1], "50m") /\ Absent(records[1], "Time")

-----------------------------------------------------------------------------
(* C20 *)

\* the position of the Lane/Place cell of the date row r: the first cell
\* after the 'time' anchor that contains a slash (0 when there is none)
LaneIdx(r) ==
    IF find_token_idx(r, tTime) = None THEN 0
    ELSE LET hits == {j \in (find_token_idx(r, tTime)[1] + 1)..Len(r) :
                         Contains(r[j], <<"/">>)}
         IN IF hits = {} THEN 0
            ELSE CHOOSE j \in hits : \A k \in hits : j <= k

\* the row r with its Lane/Place cell emptied
WithoutLane(r) == [r EXCEPT ![LaneIdx(r)] = <<>>]

\* C20: after a date row that has a Lane/Place cell, the record's Lane/Place
\* is that cell and its splits and Time are those of the other cells of the
\* row: they are what the row gives with the Lane/Place cell left out.
C20_LaneNotConsumed ==
    (pc = "loop" /\ rows # <<>> /\ IsDateRow(Last(rows))
       /\ LaneIdx(Last(rows)) > 0)
        => /\ pending["Lane_Place"] = Some(Last(rows)[LaneIdx(Last(rows))])
           /\ LET sp == Splits(WithoutLane(Last(rows)),
                               find_token_idx(Last(rows), tTime))
              IN /\ pending["50m"] = sp.s50 /\ pending["100m"] = sp.s100
                 /\ pending["150m"] = sp.s150 /\ pending["200m"] = sp.s200
                 /\ pending["Time"] = sp.time_val

====
